---- MODULE Spec2Model ----
(***************************************************************************)
(* Habit Tracker (src/App.tsx): the habit and completion collections held  *)
(* in React state, their two AsyncStorage records, the asynchronous        *)
(* handlers that change them, and the streak computation over the          *)
(* completion log.                                                         *)
(*                                                                         *)
(* Time is an instant counted in ticks since the epoch, TicksPerDay ticks  *)
(* to the UTC day.  A date string YYYY-MM-DD is the number of its day:     *)
(* fixed-width ISO dates sort and compare as their day numbers do.         *)
(* AsyncStorage serves its requests in the order they were issued; a       *)
(* request and the continuation awaiting it are one step.                  *)
(***************************************************************************)
EXTENDS Integers, Sequences, FiniteSets, TLC

VARIABLES
    now,          \* the wall clock: what new Date() and Date.now() read
    tz,           \* the time zone of the process
    habits,       \* useState<Habit[]>
    completions,  \* useState<Completion[]>
    input,        \* useState(''): the text of the input field
    alert,        \* the open "Delete habit?" dialog and the closure of its handler
    queue,        \* AsyncStorage requests issued and not yet answered, oldest first
    diskH,        \* the @habits record
    diskC,        \* the @completions record
    rejections    \* promises rejected with nobody awaiting them

vars == <<now, tz, habits, completions, input, alert, queue, diskH, diskC, rejections>>

----------------------------------------------------------------------------
(* Bounds *)

TicksPerDay == 2
MaxTime == 2
MaxHabits == 2
MaxQueue == 2
MaxFailures == 1

(* The horizon of the streak walk *)
HorizonDays == 365

(* The days of the dot row *)
WeekDays == 7

(* A zone has one offset from UTC before the instant `at` and one from it  *)
(* on; the two differ in a zone that changes its offset (daylight saving). *)
Zone(before, after, at) == [before |-> before, after |-> after, at |-> at]

\* UTC; a zone ahead of UTC; a zone that sets its clocks back at instant 3;
\* a zone that sets its clocks forward at instant 3
Zones == { Zone(0, 0, 0), Zone(1, 1, 0), Zone(1, 0, 3), Zone(0, 1, 3) }

\* No handler reads the zone: the first run is followed in one of them
HomeZone == Zone(1, 1, 0)

Space == " "
Inputs == { <<>>, <<Space>>, <<"r", Space>> }

----------------------------------------------------------------------------
(* Date *)

Offset(t) == IF t < tz.at THEN tz.before ELSE tz.after

\* Date.prototype.toISOString().slice(0, 10): the UTC day of the instant
ISODate(t) == t \div TicksPerDay

\* The local wall clock of an instant
LocalTime(t) == t + Offset(t)

\* The instant of a local wall clock time; a time that the zone repeats or
\* skips is read with the offset in force before the change
UTC(l) ==
    IF l - tz.before < tz.at THEN l - tz.before
    ELSE IF l - tz.after >= tz.at THEN l - tz.after
    ELSE l - tz.before

\* cur.setDate(cur.getDate() - n): the same local time of day, n local days back
SetDateBack(t, n) == UTC(LocalTime(t) - n * TicksPerDay)

todayStr == ISODate(now)

\* for (let i = n - 1; i >= 0; i--) { d = new Date(cur); d.setDate(cur.getDate() - i); push }
lastNDays(n) == [k \in 1..n |-> ISODate(SetDateBack(now, n - k))]

----------------------------------------------------------------------------
(* Sequences *)

Range(s) == { s[i] : i \in 1..Len(s) }

Includes(s, x) == \E i \in 1..Len(s) : s[i] = x

\* Array.prototype.filter: the elements that are in `keep`, in their order
Filter(s, keep) == SelectSeq(s, LAMBDA x : x \in keep)

\* Two sorted arrays in one: an element of a goes after the elements of b
\* smaller than it, an element of b after those of a not greater than it
Merge(a, b) ==
    LET posA == SubSeq([i \in 1..Len(a) |->
                    i + Cardinality({ j \in 1..Len(b) : b[j] < a[i] })], 1, Len(a))
        posB == SubSeq([j \in 1..Len(b) |->
                    j + Cardinality({ i \in 1..Len(a) : a[i] <= b[j] })], 1, Len(b))
    IN  SubSeq([k \in 1..(Len(a) + Len(b)) |->
                    IF \E i \in 1..Len(a) : posA[i] = k
                    THEN a[CHOOSE i \in 1..Len(a) : posA[i] = k]
                    ELSE b[CHOOSE j \in 1..Len(b) : posB[j] = k]], 1, Len(a) + Len(b))

\* Array.prototype.sort() on date strings; each half is sorted once
RECURSIVE Sort(_)
Sort(s) ==
    IF Len(s) <= 1 THEN s
    ELSE CHOOSE sorted \in
             { Merge(halves[1], halves[2]) :
                 halves \in { <<Sort(SubSeq(s, 1, Len(s) \div 2)),
                                Sort(SubSeq(s, Len(s) \div 2 + 1, Len(s)))>> } } : TRUE

Reverse(s) == [i \in 1..Len(s) |-> s[Len(s) + 1 - i]]

\* String.prototype.trim()
RECURSIVE TrimStart(_)
TrimStart(s) == IF s # <<>> /\ Head(s) = Space THEN TrimStart(Tail(s)) ELSE s

RECURSIVE TrimEnd(_)
TrimEnd(s) ==
    IF s # <<>> /\ s[Len(s)] = Space THEN TrimEnd(SubSeq(s, 1, Len(s) - 1)) ELSE s

\* Mutant: the name is taken from the input as typed
TrimNothing(s) == s

Trim(s) == TrimEnd(TrimStart(s))

----------------------------------------------------------------------------
(* lib/videos.ts and lib/playlists.ts: the suggestion lookup.  A name and  *)
(* a keyword are sequences of characters.  A title is written with "-"    *)
(* for its dash and an emoji as its code points.                           *)

UpperCase == <<"A", "B", "C", "D", "E", "F", "G", "H", "I", "J", "K", "L", "M", "N", "O", "P", "Q", "R", "S", "T", "U", "V", "W", "X", "Y", "Z">>

LowerCase == <<"a", "b", "c", "d", "e", "f", "g", "h", "i", "j", "k", "l", "m", "n", "o", "p", "q", "r", "s", "t", "u", "v", "w", "x", "y", "z">>

\* String.prototype.toLowerCase()
ToLowerCase(s) ==
    SubSeq([i \in 1..Len(s) |->
               IF \E k \in 1..Len(UpperCase) : UpperCase[k] = s[i]
               THEN LowerCase[CHOOSE k \in 1..Len(UpperCase) : UpperCase[k] = s[i]]
               ELSE s[i]], 1, Len(s))

\* lower.includes(kw)
StringIncludes(s, kw) ==
    \E i \in 0..(Len(s) - Len(kw)) : SubSeq(s, i + 1, i + Len(kw)) = kw

VIDEO_MAP == <<
    [keywords |-> << <<"m", "e", "d", "i", "t", "a", "t">>,
                      <<"m", "i", "n", "d", "f", "u", "l">>,
                      <<"b", "r", "e", "a", "t", "h", "e">>,
                      <<"b", "r", "e", "a", "t", "h">>,
                      <<"c", "a", "l", "m">>,
                      <<"r", "e", "l", "a", "x">> >>,
     videoId |-> "inpok4MKVLM",
     title |-> "5-Minute Meditation You Can Do Anywhere"],
    [keywords |-> << <<"r", "u", "n">>,
                      <<"j", "o", "g">>,
                      <<"c", "a", "r", "d", "i", "o">>,
                      <<"m", "a", "r", "a", "t", "h", "o", "n">>,
                      <<"s", "p", "r", "i", "n", "t">> >>,
     videoId |-> "iSFpgQUGCVo",
     title |-> "How to Start Running (and Actually Enjoy It)"],
    [keywords |-> << <<"w", "o", "r", "k", "o", "u", "t">>,
                      <<"e", "x", "e", "r", "c", "i", "s", "e">>,
                      <<"g", "y", "m">>,
                      <<"l", "i", "f", "t">>,
                      <<"s", "t", "r", "e", "n", "g", "t", "h">>,
                      <<"f", "i", "t", "n", "e", "s", "s">>,
                      <<"t", "r", "a", "i", "n">> >>,
     videoId |-> "vc1E5CfRfos",
     title |-> "The Science of Getting Stronger"],
    [keywords |-> << <<"r", "e", "a", "d">>,
                      <<"b", "o", "o", "k">>,
                      <<"l", "e", "a", "r", "n">>,
                      <<"s", "t", "u", "d", "y">> >>,
     videoId |-> "YjPDMHB_oEY",
     title |-> "How to Read More Books"],
    [keywords |-> << <<"j", "o", "u", "r", "n", "a", "l">>,
                      <<"w", "r", "i", "t", "e">>,
                      <<"d", "i", "a", "r", "y">>,
                      <<"g", "r", "a", "t", "i", "t", "u", "d">> >>,
     videoId |-> "dArgOrm98Bk",
     title |-> "The Life-Changing Habit of Journaling"],
    [keywords |-> << <<"s", "l", "e", "e", "p">>,
                      <<"w", "a", "k", "e">>,
                      <<"m", "o", "r", "n", "i", "n", "g">>,
                      <<"r", "o", "u", "t", "i", "n", "e">>,
                      <<"r", "i", "s", "e">> >>,
     videoId |-> "nm1TxQj9IsQ",
     title |-> "The Perfect Morning Routine"],
    [keywords |-> << <<"w", "a", "t", "e", "r">>,
                      <<"h", "y", "d", "r", "a", "t">>,
                      <<"d", "r", "i", "n", "k">> >>,
     videoId |-> "aQiGDPuk3EQ",
     title |-> "Why Staying Hydrated Is So Important"],
    [keywords |-> << <<"d", "i", "e", "t">>,
                      <<"e", "a", "t">>,
                      <<"f", "o", "o", "d">>,
                      <<"n", "u", "t", "r", "i", "t", "i", "o", "n">>,
                      <<"v", "e", "g", "e", "t", "a", "b", "l", "e">>,
                      <<"f", "r", "u", "i", "t">>,
                      <<"c", "o", "o", "k">> >>,
     videoId |-> "fqhYBTg73fw",
     title |-> "How to Build Healthy Eating Habits"],
    [keywords |-> << <<"w", "a", "l", "k">>,
                      <<"s", "t", "e", "p">>,
                      <<"o", "u", "t", "d", "o", "o", "r">>,
                      <<"n", "a", "t", "u", "r", "e">>,
                      <<"h", "i", "k", "e">> >>,
     videoId |-> "bnHMDMxLKhw",
     title |-> "The Surprising Benefits of Walking"],
    [keywords |-> << <<"s", "t", "r", "e", "t", "c", "h">>,
                      <<"y", "o", "g", "a">>,
                      <<"f", "l", "e", "x">>,
                      <<"m", "o", "b", "i", "l">> >>,
     videoId |-> "4pKly2JojMw",
     title |-> "10-Minute Morning Yoga for Beginners"],
    [keywords |-> << <<"c", "o", "d">>,
                      <<"p", "r", "o", "g", "r", "a", "m">>,
                      <<"d", "e", "v", "e", "l", "o", "p">>,
                      <<"h", "a", "c", "k">>,
                      <<"b", "u", "i", "l", "d">>,
                      <<"s", "o", "f", "t", "w", "a", "r", "e">> >>,
     videoId |-> "NtfbWkxJTHw",
     title |-> "How to Build a Coding Habit"],
    [keywords |-> << <<"l", "a", "n", "g", "u", "a">>,
                      <<"s", "p", "e", "a", "k">>,
                      <<"s", "p", "a", "n", "i", "s", "h">>,
                      <<"f", "r", "e", "n", "c", "h">>,
                      <<"g", "e", "r", "m", "a", "n">>,
                      <<"c", "h", "i", "n", "e", "s", "e">>,
                      <<"j", "a", "p", "a", "n", "e", "s", "e">> >>,
     videoId |-> "illApgaLgGA",
     title |-> "How to Learn Any Language"],
    [keywords |-> << <<"s", "a", "v", "i", "n", "g">>,
                      <<"s", "a", "v", "e">>,
                      <<"m", "o", "n", "e", "y">>,
                      <<"f", "i", "n", "a", "n", "c">>,
                      <<"b", "u", "d", "g", "e", "t">>,
                      <<"i", "n", "v", "e", "s", "t">> >>,
     videoId |-> "HQzoZfc3GwQ",
     title |-> "How to Build Better Money Habits"],
    [keywords |-> << <<"s", "o", "c", "i", "a", "l">>,
                      <<"p", "h", "o", "n", "e">>,
                      <<"s", "c", "r", "e", "e", "n">>,
                      <<"d", "e", "t", "o", "x">>,
                      <<"d", "i", "g", "i", "t", "a", "l">> >>,
     videoId |-> "OoFSMRHgSHA",
     title |-> "How to Break Your Phone Addiction"],
    [keywords |-> << <<"f", "o", "c", "u", "s">>,
                      <<"p", "r", "o", "d", "u", "c", "t", "i", "v">>,
                      <<"d", "e", "e", "p", " ", "w", "o", "r", "k">>,
                      <<"p", "o", "m", "o", "d", "o", "r", "o">>,
                      <<"d", "i", "s", "t", "r", "a", "c", "t">> >>,
     videoId |-> "WXBA4eWskrc",
     title |-> "How to Focus Like a Navy SEAL"],
    [keywords |-> << <<"c", "o", "l", "d">>,
                      <<"s", "h", "o", "w", "e", "r">>,
                      <<"i", "c", "e">> >>,
     videoId |-> "NUYP3bBnBY0",
     title |-> "Cold Showers - What Happens to Your Body"],
    [keywords |-> << <<"v", "i", "t", "a", "m", "i", "n">>,
                      <<"s", "u", "p", "p", "l", "e", "m", "e", "n", "t">>,
                      <<"h", "e", "a", "l", "t", "h">> >>,
     videoId |-> "fLNJLIKMFsM",
     title |-> "Daily Habits for Long-Term Health"],
    [keywords |-> << <<"g", "r", "a", "t", "i", "t", "u", "d", "e">>,
                      <<"t", "h", "a", "n", "k", "f", "u", "l">>,
                      <<"p", "o", "s", "i", "t", "i", "v", "e">>,
                      <<"m", "i", "n", "d", "s", "e", "t">> >>,
     videoId |-> "WPPPFqsECz0",
     title |-> "The Power of Gratitude"]
>>

VIDEO_FALLBACK ==
    [videoId |-> "ZXsQAXx_ao0", title |-> "The Power of Small Habits - James Clear"]

PLAYLIST_MAP == <<
    [keywords |-> << <<"f", "o", "c", "u", "s">>,
                      <<"p", "r", "o", "d", "u", "c", "t", "i", "v">>,
                      <<"d", "e", "e", "p", " ", "w", "o", "r", "k">>,
                      <<"s", "t", "u", "d", "y">>,
                      <<"p", "o", "m", "o", "d", "o", "r", "o">>,
                      <<"w", "o", "r", "k">>,
                      <<"c", "o", "d">>,
                      <<"p", "r", "o", "g", "r", "a", "m">>,
                      <<"d", "e", "v", "e", "l", "o", "p">> >>,
     playlistId |-> "PLOfLYVXrwqBwbNnkVWUfFHFpbmmr5VJo_",
     title |-> "Deep Focus - Study & Work",
     description |-> "Instrumental music for deep concentration",
     category |-> "Focus", emoji |-> "U+1F3AF", color |-> "#EEF2FF"],
    [keywords |-> << <<"w", "o", "r", "k", "o", "u", "t">>,
                      <<"g", "y", "m">>,
                      <<"l", "i", "f", "t">>,
                      <<"s", "t", "r", "e", "n", "g", "t", "h">>,
                      <<"f", "i", "t", "n", "e", "s", "s">>,
                      <<"t", "r", "a", "i", "n">>,
                      <<"e", "x", "e", "r", "c", "i", "s", "e">> >>,
     playlistId |-> "PLx65qkgCWNJIgq1Mj0rtsthQSXe3bQoLt",
     title |-> "Ultimate Workout Motivation",
     description |-> "High energy tracks to power your training",
     category |-> "Workout", emoji |-> "U+1F4AA", color |-> "#FFF1F2"],
    [keywords |-> << <<"r", "u", "n">>,
                      <<"j", "o", "g">>,
                      <<"c", "a", "r", "d", "i", "o">>,
                      <<"m", "a", "r", "a", "t", "h", "o", "n">>,
                      <<"s", "p", "r", "i", "n", "t">> >>,
     playlistId |-> "PLgzTt0k8mXzEk586ze4BjKDn2KKOIUmMX",
     title |-> "Running Motivation Mix",
     description |-> "Upbeat beats to keep your pace up",
     category |-> "Running", emoji |-> "U+1F3C3", color |-> "#FFF7ED"],
    [keywords |-> << <<"m", "e", "d", "i", "t", "a", "t">>,
                      <<"m", "i", "n", "d", "f", "u", "l">>,
                      <<"b", "r", "e", "a", "t", "h", "e">>,
                      <<"b", "r", "e", "a", "t", "h">>,
                      <<"c", "a", "l", "m">>,
                      <<"r", "e", "l", "a", "x">> >>,
     playlistId |-> "PLQ_PIlf6OzqJpURN4dFxHV82l4vV7OEKZ",
     title |-> "Meditation & Mindfulness",
     description |-> "Calm ambient sounds for meditation",
     category |-> "Calm", emoji |-> "U+1F9D8", color |-> "#F0FDF4"],
    [keywords |-> << <<"s", "l", "e", "e", "p">>,
                      <<"r", "e", "s", "t">>,
                      <<"n", "a", "p">>,
                      <<"b", "e", "d", "t", "i", "m", "e">> >>,
     playlistId |-> "PLtBQA7FZXBU2E2RcRLNnFHhzNKERnMV-L",
     title |-> "Sleep Sounds & Relaxation",
     description |-> "Gentle sounds to help you drift off",
     category |-> "Sleep", emoji |-> "U+1F634", color |-> "#F5F3FF"],
    [keywords |-> << <<"y", "o", "g", "a">>,
                      <<"s", "t", "r", "e", "t", "c", "h">>,
                      <<"f", "l", "e", "x">>,
                      <<"m", "o", "b", "i", "l">>,
                      <<"p", "i", "l", "a", "t", "e", "s">> >>,
     playlistId |-> "PLgzTt0k8mXzHQCkrHxBTQNLIUUMm8XEIQ",
     title |-> "Yoga Flow Music",
     description |-> "Peaceful music for flow and flexibility",
     category |-> "Yoga", emoji |-> "U+1F33F", color |-> "#ECFDF5"],
    [keywords |-> << <<"m", "o", "r", "n", "i", "n", "g">>,
                      <<"w", "a", "k", "e">>,
                      <<"r", "i", "s", "e">>,
                      <<"r", "o", "u", "t", "i", "n", "e">> >>,
     playlistId |-> "PLgzTt0k8mXzEk586ze4BjKDn2KKOIUmMX",
     title |-> "Morning Energy Boost",
     description |-> "Start your day with positive vibes",
     category |-> "Morning", emoji |-> "U+2600 U+FE0F", color |-> "#FFFBEB"],
    [keywords |-> << <<"r", "e", "a", "d">>,
                      <<"b", "o", "o", "k">>,
                      <<"l", "e", "a", "r", "n">> >>,
     playlistId |-> "PLOfLYVXrwqBwbNnkVWUfFHFpbmmr5VJo_",
     title |-> "Reading Ambience",
     description |-> "Calm background music for reading",
     category |-> "Reading", emoji |-> "U+1F4DA", color |-> "#EFF6FF"],
    [keywords |-> << <<"j", "o", "u", "r", "n", "a", "l">>,
                      <<"w", "r", "i", "t", "e">>,
                      <<"d", "i", "a", "r", "y">> >>,
     playlistId |-> "PLQ_PIlf6OzqJpURN4dFxHV82l4vV7OEKZ",
     title |-> "Journaling Atmosphere",
     description |-> "Reflective ambient sounds for writing",
     category |-> "Journal", emoji |-> "U+270D U+FE0F", color |-> "#FDF4FF"],
    [keywords |-> << <<"w", "a", "l", "k">>,
                      <<"s", "t", "e", "p">>,
                      <<"o", "u", "t", "d", "o", "o", "r">>,
                      <<"n", "a", "t", "u", "r", "e">>,
                      <<"h", "i", "k", "e">> >>,
     playlistId |-> "PLgzTt0k8mXzHQCkrHxBTQNLIUUMm8XEIQ",
     title |-> "Nature Walk Vibes",
     description |-> "Easy listening for your daily walk",
     category |-> "Walk", emoji |-> "U+1F6B6", color |-> "#F0FDF4"],
    [keywords |-> << <<"c", "o", "o", "k">>,
                      <<"f", "o", "o", "d">>,
                      <<"e", "a", "t">>,
                      <<"n", "u", "t", "r", "i", "t", "i", "o", "n">>,
                      <<"d", "i", "e", "t">>,
                      <<"m", "e", "a", "l">> >>,
     playlistId |-> "PLx65qkgCWNJIgq1Mj0rtsthQSXe3bQoLt",
     title |-> "Cooking Vibes",
     description |-> "Feel-good music for the kitchen",
     category |-> "Cooking", emoji |-> "U+1F373", color |-> "#FFF7ED"],
    [keywords |-> << <<"l", "a", "n", "g", "u", "a">>,
                      <<"s", "p", "a", "n", "i", "s", "h">>,
                      <<"f", "r", "e", "n", "c", "h">>,
                      <<"g", "e", "r", "m", "a", "n">>,
                      <<"c", "h", "i", "n", "e", "s", "e">>,
                      <<"j", "a", "p", "a", "n", "e", "s", "e">>,
                      <<"s", "p", "e", "a", "k">> >>,
     playlistId |-> "PLOfLYVXrwqBwbNnkVWUfFHFpbmmr5VJo_",
     title |-> "Language Learning Focus",
     description |-> "Concentration music for language study",
     category |-> "Language", emoji |-> "U+1F30D", color |-> "#EEF2FF"],
    [keywords |-> << <<"c", "o", "l", "d">>,
                      <<"s", "h", "o", "w", "e", "r">>,
                      <<"i", "c", "e">> >>,
     playlistId |-> "PLx65qkgCWNJIgq1Mj0rtsthQSXe3bQoLt",
     title |-> "Cold Shower Pump-Up",
     description |-> "High energy to get you through it",
     category |-> "Energy", emoji |-> "U+26A1", color |-> "#FFF1F2"],
    [keywords |-> << <<"g", "r", "a", "t", "i", "t", "u", "d", "e">>,
                      <<"t", "h", "a", "n", "k", "f", "u", "l">>,
                      <<"p", "o", "s", "i", "t", "i", "v", "e">>,
                      <<"m", "i", "n", "d", "s", "e", "t">>,
                      <<"a", "f", "f", "i", "r", "m">> >>,
     playlistId |-> "PLQ_PIlf6OzqJpURN4dFxHV82l4vV7OEKZ",
     title |-> "Positive Mindset Music",
     description |-> "Uplifting tracks for a grateful mindset",
     category |-> "Mindset", emoji |-> "U+2728", color |-> "#FFFBEB"],
    [keywords |-> << <<"s", "a", "v", "i", "n", "g">>,
                      <<"m", "o", "n", "e", "y">>,
                      <<"f", "i", "n", "a", "n", "c">>,
                      <<"b", "u", "d", "g", "e", "t">>,
                      <<"i", "n", "v", "e", "s", "t">> >>,
     playlistId |-> "PLOfLYVXrwqBwbNnkVWUfFHFpbmmr5VJo_",
     title |-> "Deep Work - Finance Mode",
     description |-> "Focus music for planning and analysis",
     category |-> "Finance", emoji |-> "U+1F4B0", color |-> "#F0FDF4"]
>>

PLAYLIST_FALLBACK ==
    [keywords |-> <<>>,
     playlistId |-> "PLx65qkgCWNJIgq1Mj0rtsthQSXe3bQoLt",
     title |-> "Motivation & Success",
     description |-> "Fuel your habits with great music",
     category |-> "Motivation", emoji |-> "U+1F680", color |-> "#EEF2FF"]

\* entry.keywords.some((kw) => lower.includes(kw))
Matches(entry, lower) ==
    \E j \in 1..Len(entry.keywords) : StringIncludes(lower, entry.keywords[j])

\* Mutant: a later matching row replaces an earlier one
RECURSIVE LastMatch(_, _, _)
LastMatch(map, lower, fallback) ==
    IF map = <<>> THEN fallback
    ELSE IF Matches(map[Len(map)], lower) THEN map[Len(map)]
    ELSE LastMatch(SubSeq(map, 1, Len(map) - 1), lower, fallback)

\* for (const entry of MAP) { if (...) return entry; } return FALLBACK;
RECURSIVE FirstMatch(_, _, _)
FirstMatch(map, lower, fallback) ==
    IF map = <<>> THEN fallback
    ELSE IF Matches(Head(map), lower) THEN Head(map)
    ELSE FirstMatch(Tail(map), lower, fallback)

\* return { videoId: entry.videoId, title: entry.title };
suggestVideo(habitName) ==
    LET entry == FirstMatch(VIDEO_MAP, ToLowerCase(habitName), VIDEO_FALLBACK)
    IN  [videoId |-> entry.videoId, title |-> entry.title]

suggestPlaylist(habitName) ==
    FirstMatch(PLAYLIST_MAP, ToLowerCase(habitName), PLAYLIST_FALLBACK)

----------------------------------------------------------------------------
(* Habit and Completion *)

Habit(id, name, createdAt) == [id |-> id, name |-> name, createdAt |-> createdAt]

\* The value of a property that an object does not have
Undefined == "undefined"

\* o.k, and const { k } = o
Property(o, k) == IF k \in DOMAIN o THEN o[k] ELSE Undefined

\* The Habit of the variant with media: the suggestion is cached in the
\* habit.  A property set to undefined is one the object does not have:
\* reading it and writing the object as text do not tell the two apart.
MediaHabit(id, name, createdAt, videoId, videoTitle, playlist) ==
    LET habit == [id |-> id, name |-> name, createdAt |-> createdAt,
                  videoId |-> videoId,
                  videoTitle |-> videoTitle,
                  playlistId |-> playlist.playlistId,
                  playlistTitle |-> playlist.title,
                  playlistCategory |-> playlist.category,
                  playlistEmoji |-> playlist.emoji,
                  playlistColor |-> playlist.color]
        undefined == { k \in {"videoId", "videoTitle"} : habit[k] = Undefined }
    IN  [k \in DOMAIN habit \ undefined |-> habit[k]]

\* The properties of a Habit in the order they are written
HabitFields ==
    <<"id", "name", "createdAt", "videoId", "videoTitle",
      "playlistId", "playlistTitle", "playlistCategory", "playlistEmoji",
      "playlistColor">>

Completion(habitId, date) == [habitId |-> habitId, date |-> date]

HabitIds(hs) == { hs[i].id : i \in 1..Len(hs) }

\* completions.some((c) => c.habitId === habitId && c.date === date)
IsDone(cs, habitId, date) == Includes(cs, Completion(habitId, date))

----------------------------------------------------------------------------
(* getStreak *)

\* Mutant: the dates are taken only when the newest entry is the habit's own
DatesIfNewestIsOwn(habitId, cs) ==
    IF cs # <<>> /\ cs[Len(cs)].habitId = habitId
    THEN LET mine == Filter(cs, { c \in Range(cs) : c.habitId = habitId })
         IN  Reverse(Sort([i \in 1..Len(mine) |-> mine[i].date]))
    ELSE <<>>

\* Mutant: the dates of every habit's completions
DatesOfAll(habitId, cs) == Reverse(Sort([i \in 1..Len(cs) |-> cs[i].date]))

\* completions.filter((c) => c.habitId === habitId).map((c) => c.date).sort().reverse()
StreakDates(habitId, cs) ==
    LET mine == Filter(cs, { c \in Range(cs) : c.habitId = habitId })
    IN  Reverse(Sort([i \in 1..Len(mine) |-> mine[i].date]))

\* The variables of the walk: the Date cur, the counter, and whether the
\* loop was left by break
Walk(cur, streak, done) == [cur |-> cur, streak |-> streak, done |-> done]

\* One iteration of the for loop
StreakStep(dates, w, i) ==
    IF w.done THEN w
    ELSE IF Includes(dates, ISODate(w.cur))
         THEN Walk(SetDateBack(w.cur, 1), w.streak + 1, FALSE)
         ELSE IF i = 0
              THEN Walk(SetDateBack(w.cur, 1), w.streak, FALSE)
              ELSE Walk(w.cur, w.streak, TRUE)

\* The iterations from..(to - 1) of the for loop, first half then second
\* half; the state after the first half is a value, computed once
RECURSIVE StreakLoop(_, _, _, _)
StreakLoop(dates, w, from, to) ==
    IF w.done \/ from >= to THEN w
    ELSE IF to - from = 1 THEN StreakStep(dates, w, from)
    ELSE LET mid == (from + to) \div 2
         IN  CHOOSE end \in { StreakLoop(dates, half, mid, to) :
                                 half \in { StreakLoop(dates, w, from, mid) } } : TRUE

\* The walk over the dates of a habit, themselves computed once
StreakWalk(dates, horizon) ==
    IF Len(dates) = 0 THEN 0
    ELSE StreakLoop(dates, Walk(now, 0, FALSE), 0, horizon).streak

\* Mutant: the walk goes on for two horizons
StreakOverTwoHorizons(habitId, cs) ==
    CHOOSE streak \in { StreakWalk(dates, 2 * HorizonDays) :
                           dates \in { StreakDates(habitId, cs) } } : TRUE

getStreak(habitId, cs) ==
    CHOOSE streak \in { StreakWalk(dates, HorizonDays) :
                           dates \in { StreakDates(habitId, cs) } } : TRUE

\* Math.max
Max(a, b) == IF a >= b THEN a ELSE b

\* Mutant: the reduction keeps the streak of the habit it visits
ReduceLast(hs, cs, max) ==
    IF hs = <<>> THEN max ELSE getStreak(hs[Len(hs)].id, cs)

\* habits.reduce((max, h) => Math.max(max, getStreak(h.id, completions)), 0)
RECURSIVE ReduceMax(_, _, _)
ReduceMax(hs, cs, max) ==
    IF hs = <<>> THEN max
    ELSE ReduceMax(Tail(hs), cs, Max(max, getStreak(Head(hs).id, cs)))

longestStreak == ReduceMax(habits, completions, 0)

\* Mutant: Done Today counts the completions of today, whosever they are
DoneTodayOfAll(hs, cs, today) ==
    Cardinality({ i \in 1..Len(cs) : cs[i].date = today })

\* habits.filter((h) => completions.some((c) => c.habitId === h.id && c.date === today)).length
DoneToday(hs, cs, today) == Len(SelectSeq(hs, LAMBDA h : IsDone(cs, h.id, today)))

completedToday == DoneToday(habits, completions, todayStr)

\* WeekDots: a dot for each of the last 7 days, done when a completion of
\* the habit has the date of the dot
WeekDots(habitId, cs) ==
    [k \in 1..WeekDays |->
        [date |-> lastNDays(WeekDays)[k],
         done |-> IsDone(cs, habitId, lastNDays(WeekDays)[k])]]

----------------------------------------------------------------------------
(* AsyncStorage records: JSON.stringify and JSON.parse *)

\* getItem of a key never written resolves to null
Null == [present |-> FALSE, text |-> <<>>]

\* An object as text: its properties, name and value, in their order
StringifyObject(o, fields) ==
    LET own == SelectSeq(fields, LAMBDA k : k \in DOMAIN o)
    IN  SubSeq([j \in 1..Len(own) |-> <<own[j], o[own[j]]>>], 1, Len(own))

\* The object of a text: a property for each name written
ParseObject(pairs) ==
    [k \in { pairs[j][1] : j \in 1..Len(pairs) } |->
        pairs[CHOOSE j \in 1..Len(pairs) : pairs[j][1] = k][2]]

StringifyHabits(hs) ==
    [present |-> TRUE,
     text |-> SubSeq([i \in 1..Len(hs) |-> StringifyObject(hs[i], HabitFields)], 1, Len(hs))]

\* Mutant: only id, name and createdAt are read back
ParseWithoutMedia(r) ==
    [i \in 1..Len(r.text) |->
        LET o == ParseObject(r.text[i]) IN Habit(o.id, o.name, o.createdAt)]

ParseHabits(r) ==
    [i \in 1..Len(r.text) |-> ParseObject(r.text[i])]

StringifyCompletions(cs) ==
    [present |-> TRUE,
     text |-> [i \in 1..Len(cs) |-> <<cs[i].habitId, cs[i].date>>]]

ParseCompletions(r) ==
    [i \in 1..Len(r.text) |-> Completion(r.text[i][1], r.text[i][2])]

\* A request in flight with the continuation that awaits it: `then` names the
\* continuation, id/snapH/snapC are the variables its closure holds
Request(op, val, then, id, snapH, snapC) ==
    [op |-> op, val |-> val, then |-> then, id |-> id, snapH |-> snapH, snapC |-> snapC]

NoAlert == [open |-> FALSE, id |-> "", snapH |-> <<>>, snapC |-> <<>>]

\* The effect run on mount issues the first read
LoadRequest == Request("getH", Null, "load", "", <<>>, <<>>)

----------------------------------------------------------------------------
(* Initial state: a first run on an empty store *)

Init ==
    /\ now = 0
    /\ tz = HomeZone
    /\ habits = <<>>
    /\ completions = <<>>
    /\ input = <<>>
    /\ alert = NoAlert
    /\ queue = <<LoadRequest>>
    /\ diskH = Null
    /\ diskC = Null
    /\ rejections = 0

----------------------------------------------------------------------------
(* saveHabits and saveCompletions: set the state, then issue the write *)

saveHabits(updated, then, id, snapH, snapC, rest) ==
    /\ habits' = updated
    /\ queue' = Append(rest, Request("setH", StringifyHabits(updated), then, id, snapH, snapC))

saveCompletions(updated, then, id, snapH, snapC, rest) ==
    /\ completions' = updated
    /\ queue' = Append(rest, Request("setC", StringifyCompletions(updated), then, id, snapH, snapC))

----------------------------------------------------------------------------
(* The handlers of the user's actions.  A handler reads the state of the   *)
(* last render; the dialog is modal, so none runs while it is open.        *)

CanAct == ~alert.open /\ Len(queue) < MaxQueue

\* onChangeText={setInput}
TypeInput(s) ==
    /\ ~alert.open
    /\ input' = s
    /\ UNCHANGED <<now, tz, habits, completions, alert, queue, diskH, diskC, rejections>>

\* addHabit up to its await
addHabit ==
    /\ CanAct
    /\ LET name == Trim(input)
       IN  IF name = <<>>
           THEN UNCHANGED <<habits, queue>>
           ELSE /\ Len(habits) < MaxHabits
                /\ saveHabits(Append(habits, Habit(ToString(now), name, now)),
                              "addHabit", "", <<>>, <<>>, queue)
    /\ UNCHANGED <<now, tz, completions, input, alert, diskH, diskC, rejections>>

\* addHabit of the variant with media, up to its await
addHabitWithMedia ==
    /\ CanAct
    /\ LET name == Trim(input)
           video == suggestVideo(name)
           playlist == suggestPlaylist(name)
       IN  IF name = <<>>
           THEN UNCHANGED <<habits, queue>>
           ELSE /\ Len(habits) < MaxHabits
                /\ saveHabits(Append(habits,
                                     MediaHabit(ToString(now), name, now,
                                                Property(video, "videoId"),
                                                Property(video, "videoTitle"),
                                                playlist)),
                              "addHabit", "", <<>>, <<>>, queue)
    /\ UNCHANGED <<now, tz, completions, input, alert, diskH, diskC, rejections>>

\* Mutant: the habit is removed at once, without the dialog
DeleteWithoutAsking(id) ==
    /\ CanAct
    /\ id \in HabitIds(habits)
    /\ saveHabits(Filter(habits, { h \in Range(habits) : h.id # id }),
                  "deleteHabit", id, habits, completions, queue)
    /\ UNCHANGED <<now, tz, completions, input, alert, diskH, diskC, rejections>>

\* deleteHabit: the dialog opens; its Delete handler closes over this render
deleteHabit(id) ==
    /\ CanAct
    /\ id \in HabitIds(habits)
    /\ alert' = [open |-> TRUE, id |-> id, snapH |-> habits, snapC |-> completions]
    /\ UNCHANGED <<now, tz, habits, completions, input, queue, diskH, diskC, rejections>>

\* { text: 'Cancel', style: 'cancel' }
CancelDelete ==
    /\ alert.open
    /\ alert' = NoAlert
    /\ UNCHANGED <<now, tz, habits, completions, input, queue, diskH, diskC, rejections>>

\* habits.filter((h) => h.id !== id)
WithoutHabit(hs, id) == Filter(hs, { h \in Range(hs) : h.id # id })

\* Mutant: the cascade keeps the completions of the deleted habit only
OnlyCompletionsOf(cs, id) == Filter(cs, { c \in Range(cs) : c.habitId = id })

\* completions.filter((c) => c.habitId !== id)
WithoutCompletionsOf(cs, id) == Filter(cs, { c \in Range(cs) : c.habitId # id })

\* The Delete button's onPress up to its first await
ConfirmDelete ==
    /\ alert.open
    /\ saveHabits(WithoutHabit(alert.snapH, alert.id),
                  "deleteHabit", alert.id, alert.snapH, alert.snapC, queue)
    /\ alert' = NoAlert
    /\ UNCHANGED <<now, tz, completions, input, diskH, diskC, rejections>>

\* Mutant: the `already` test is lost and the completion is always added
ToggleAlwaysAppends(cs, habitId, t) == Append(cs, Completion(habitId, t))

\* Mutant: un-completing filters on the habit alone and drops its other days
ToggleDropsTheHabit(cs, habitId, t) ==
    IF IsDone(cs, habitId, t)
    THEN Filter(cs, { c \in Range(cs) : c.habitId # habitId })
    ELSE Append(cs, Completion(habitId, t))

\* Mutant: a completion, once there, is never removed
ToggleNeverRemoves(cs, habitId, t) ==
    IF IsDone(cs, habitId, t) THEN cs ELSE Append(cs, Completion(habitId, t))

\* The collection toggleComplete saves
ToggleUpdated(cs, habitId, t) ==
    IF IsDone(cs, habitId, t)
    THEN Filter(cs, { c \in Range(cs) : ~(c.habitId = habitId /\ c.date = t) })
    ELSE Append(cs, Completion(habitId, t))

\* toggleComplete up to its await
toggleComplete(habitId) ==
    /\ CanAct
    /\ habitId \in HabitIds(habits)
    /\ saveCompletions(ToggleUpdated(completions, habitId, todayStr),
                       "toggleComplete", habitId, <<>>, <<>>, queue)
    /\ UNCHANGED <<now, tz, habits, input, alert, diskH, diskC, rejections>>

----------------------------------------------------------------------------
(* AsyncStorage answers the oldest request and its continuation runs *)

Answering(op, then) ==
    /\ queue # <<>>
    /\ Head(queue).op = op
    /\ Head(queue).then = then

\* const h = await AsyncStorage.getItem(HABITS_KEY); the second read is issued
LoadHabitsRead ==
    /\ Answering("getH", "load")
    /\ queue' = Append(Tail(queue), Request("getC", diskH, "load", "", <<>>, <<>>))
    /\ UNCHANGED <<now, tz, habits, completions, input, alert, diskH, diskC, rejections>>

\* Mutant: the load sets a collection only when both records are there
LoadNeedsBothRecords ==
    /\ Answering("getC", "load")
    /\ habits' = IF Head(queue).val.present /\ diskC.present
                  THEN ParseHabits(Head(queue).val) ELSE habits
    /\ completions' = IF Head(queue).val.present /\ diskC.present
                       THEN ParseCompletions(diskC) ELSE completions
    /\ queue' = Tail(queue)
    /\ UNCHANGED <<now, tz, input, alert, diskH, diskC, rejections>>

\* const c = await ...getItem(COMPLETIONS_KEY); if (h) setHabits; if (c) setCompletions
LoadCompletionsRead ==
    /\ Answering("getC", "load")
    /\ habits' = IF Head(queue).val.present THEN ParseHabits(Head(queue).val) ELSE habits
    /\ completions' = IF diskC.present THEN ParseCompletions(diskC) ELSE completions
    /\ queue' = Tail(queue)
    /\ UNCHANGED <<now, tz, input, alert, diskH, diskC, rejections>>

\* addHabit after its await: setInput(''); Keyboard.dismiss()
AddHabitSaved ==
    /\ Answering("setH", "addHabit")
    /\ diskH' = Head(queue).val
    /\ input' = <<>>
    /\ queue' = Tail(queue)
    /\ UNCHANGED <<now, tz, habits, completions, alert, diskC, rejections>>

\* Delete's onPress after its first await: the cascade, from the closure's snapshot
DeleteHabitSaved ==
    /\ Answering("setH", "deleteHabit")
    /\ diskH' = Head(queue).val
    /\ saveCompletions(WithoutCompletionsOf(Head(queue).snapC, Head(queue).id),
                       "deleteCascade", Head(queue).id, Head(queue).snapH,
                       Head(queue).snapC, Tail(queue))
    /\ UNCHANGED <<now, tz, habits, input, alert, diskC, rejections>>

\* Delete's onPress after its second await
DeleteCascadeSaved ==
    /\ Answering("setC", "deleteCascade")
    /\ diskC' = Head(queue).val
    /\ queue' = Tail(queue)
    /\ UNCHANGED <<now, tz, habits, completions, input, alert, diskH, rejections>>

\* toggleComplete after its await
ToggleSaved ==
    /\ Answering("setC", "toggleComplete")
    /\ diskC' = Head(queue).val
    /\ queue' = Tail(queue)
    /\ UNCHANGED <<now, tz, habits, completions, input, alert, diskH, rejections>>

\* AsyncStorage.setItem rejects: the record keeps its value, the await throws,
\* the rest of the handler does not run and nothing catches the rejection
WriteFails ==
    /\ queue # <<>>
    /\ Head(queue).op \in {"setH", "setC"}
    /\ rejections < MaxFailures
    /\ rejections' = rejections + 1
    /\ queue' = Tail(queue)
    /\ UNCHANGED <<now, tz, habits, completions, input, alert, diskH, diskC>>

----------------------------------------------------------------------------
(* The environment *)

\* Time passes
PassTime(limit) ==
    /\ now < limit
    /\ now' = now + 1
    /\ UNCHANGED <<tz, habits, completions, input, alert, queue, diskH, diskC, rejections>>

Tick == PassTime(MaxTime)

\* The process ends and the app is started again: the React state is the
\* initial one, requests not yet served are lost, the records stay
Restart ==
    /\ habits' = <<>>
    /\ completions' = <<>>
    /\ input' = <<>>
    /\ alert' = NoAlert
    /\ queue' = <<LoadRequest>>
    /\ rejections' = 0
    /\ UNCHANGED <<now, tz, diskH, diskC>>

----------------------------------------------------------------------------
(* Spec: the app from its first run, with every interleaving of the        *)
(* handlers, the continuations, failing writes and restarts.               *)

Next ==
    \/ \E s \in Inputs : TypeInput(s)
    \/ addHabit
    \/ \E id \in HabitIds(habits) : deleteHabit(id)
    \/ CancelDelete
    \/ ConfirmDelete
    \/ \E id \in HabitIds(habits) : toggleComplete(id)
    \/ LoadHabitsRead
    \/ LoadCompletionsRead
    \/ AddHabitSaved
    \/ DeleteHabitSaved
    \/ DeleteCascadeSaved
    \/ ToggleSaved
    \/ WriteFails
    \/ Tick
    \/ Restart

Spec == Init /\ [][Next]_vars

----------------------------------------------------------------------------
(* SpecSerial: the user waits for a command to finish before the next one; *)
(* a command starts only when no request is in flight.                     *)

Quiet == queue = <<>>

NextSerial ==
    \/ Quiet /\ \E s \in Inputs : TypeInput(s)
    \/ Quiet /\ addHabit
    \/ Quiet /\ \E id \in HabitIds(habits) : deleteHabit(id)
    \/ CancelDelete
    \/ ConfirmDelete
    \/ Quiet /\ \E id \in HabitIds(habits) : toggleComplete(id)
    \/ LoadHabitsRead
    \/ LoadCompletionsRead
    \/ AddHabitSaved
    \/ DeleteHabitSaved
    \/ DeleteCascadeSaved
    \/ ToggleSaved
    \/ WriteFails
    \/ Tick
    \/ Quiet /\ Restart

SpecSerial == Init /\ [][NextSerial]_vars

----------------------------------------------------------------------------
(* TapSpec: one run of the app from an empty store in which every write    *)
(* succeeds; the user does not wait for a command to finish before the     *)
(* next one.                                                               *)

TapNext ==
    \/ \E s \in Inputs : TypeInput(s)
    \/ addHabit
    \/ \E id \in HabitIds(habits) : deleteHabit(id)
    \/ CancelDelete
    \/ ConfirmDelete
    \/ \E id \in HabitIds(habits) : toggleComplete(id)
    \/ LoadHabitsRead
    \/ LoadCompletionsRead
    \/ AddHabitSaved
    \/ DeleteHabitSaved
    \/ DeleteCascadeSaved
    \/ ToggleSaved
    \/ Tick

TapSpec == Init /\ [][TapNext]_vars

----------------------------------------------------------------------------
(* MediaSpec: the variant with media.  The user types names that the       *)
(* suggestion tables know and names they do not, and issues commands one   *)
(* at a time; the app is stopped and started again.                        *)

MorningRun == <<"M", "o", "r", "n", "i", "n", "g", " ", "R", "u", "n">>

MediaInputs ==
    { <<Space>>, MorningRun, <<"W", "o", "r", "k", "o", "u", "t">>, <<" ", "R", "e", "a", "d", " ">>, <<"N", "a", "p">>, <<"z", "z">> }

MediaNext ==
    \/ Quiet /\ \E s \in MediaInputs : TypeInput(s)
    \/ Quiet /\ addHabitWithMedia
    \/ Quiet /\ \E id \in HabitIds(habits) : deleteHabit(id)
    \/ CancelDelete
    \/ ConfirmDelete
    \/ Quiet /\ \E id \in HabitIds(habits) : toggleComplete(id)
    \/ LoadHabitsRead
    \/ LoadCompletionsRead
    \/ AddHabitSaved
    \/ DeleteHabitSaved
    \/ DeleteCascadeSaved
    \/ ToggleSaved
    \/ Tick
    \/ Quiet /\ Restart

MediaSpec == Init /\ [][MediaNext]_vars

----------------------------------------------------------------------------
(* StreakSpec: the completion log over several days.  The app has loaded   *)
(* two habits created on day 0 and any completion history up to today, in  *)
(* any zone; the user toggles and time passes.                             *)

StreakMaxTime == 5

LoadedHabits == << Habit("0", <<"r">>, 0), Habit("1", <<"r">>, 1) >>

\* The completions of a set of (habit, day) pairs in the order of their days
RECURSIVE LogOf(_)
LogOf(pairs) ==
    IF pairs = {} THEN <<>>
    ELSE LET last == CHOOSE p \in pairs :
                        \A q \in pairs : q[2] < p[2] \/ (q[2] = p[2] /\ q[1] <= p[1])
         IN  Append(LogOf(pairs \ {last}), Completion(LoadedHabits[last[1]].id, last[2]))

StreakInit ==
    /\ now \in 1..StreakMaxTime
    /\ tz \in Zones
    /\ habits = LoadedHabits
    /\ \E pairs \in SUBSET ((1..Len(LoadedHabits)) \X (0..ISODate(now))) :
          completions = LogOf(pairs)
    /\ input = <<>>
    /\ alert = NoAlert
    /\ queue = <<>>
    /\ diskH = StringifyHabits(habits)
    /\ diskC = StringifyCompletions(completions)
    /\ rejections = 0

StreakNext ==
    \/ \E id \in HabitIds(habits) : toggleComplete(id)
    \/ ToggleSaved
    \/ PassTime(StreakMaxTime)

StreakSpec == StreakInit /\ [][StreakNext]_vars

----------------------------------------------------------------------------
(* HorizonSpec: a log longer than the horizon of the walk.  The first      *)
(* habit was completed on every day from day 0 or day 2 to yesterday or    *)
(* today, the second one on day 0 only; the user toggles during the day.   *)

\* The first instant of the day after the horizon, counted from day 0
HorizonStart == (HorizonDays + 1) * TicksPerDay

HorizonMaxTime == HorizonStart + TicksPerDay - 1

\* A completion of a habit on every day from first to last
LogOfRun(habitId, first, last) ==
    [i \in 1..(last - first + 1) |-> Completion(habitId, first + i - 1)]

HorizonInit ==
    /\ now = HorizonStart
    /\ tz \in Zones
    /\ habits = LoadedHabits
    /\ \E first \in {0, 2}, last \in (ISODate(now) - 1)..ISODate(now) :
          completions = LogOfRun(LoadedHabits[1].id, first, last)
                            \o <<Completion(LoadedHabits[2].id, 0)>>
    /\ input = <<>>
    /\ alert = NoAlert
    /\ queue = <<>>
    /\ diskH = StringifyHabits(habits)
    /\ diskC = StringifyCompletions(completions)
    /\ rejections = 0

HorizonNext ==
    \/ \E id \in HabitIds(habits) : toggleComplete(id)
    \/ ToggleSaved
    \/ PassTime(HorizonMaxTime)

HorizonSpec == HorizonInit /\ [][HorizonNext]_vars

----------------------------------------------------------------------------
(* What the claims speak of *)

Min(a, b) == IF a <= b THEN a ELSE b

\* The days on which a habit has a completion
DaysDone(habitId, cs) == { c.date : c \in { x \in Range(cs) : x.habitId = habitId } }

\* The length of the unbroken run of days of S that ends at day d
RunEndingAt(S, d) ==
    CHOOSE k \in 0..(d + 1) :
        /\ \A j \in 0..(k - 1) : d - j \in S
        /\ d - k \notin S

\* The first day offset from 1 on without a completion
FirstGap(habitId, cs) ==
    CHOOSE g \in 1..(todayStr + 1) :
        /\ todayStr - g \notin DaysDone(habitId, cs)
        /\ \A k \in 1..(g - 1) : todayStr - k \in DaysDone(habitId, cs)

\* The completions of a habit on the days after day d, and all of the others
NewerThan(cs, habitId, d) ==
    Filter(cs, { c \in Range(cs) : c.habitId # habitId \/ c.date > d })

----------------------------------------------------------------------------
(* C1: Grace for today.  A habit with no completion for today has as its   *)
(* streak the number of consecutive completed days ending at yesterday:    *)
(* the missing completion neither ends the walk nor is counted.            *)
C1_GraceForToday ==
    \A h \in HabitIds(habits) :
        ~IsDone(completions, h, todayStr) =>
            getStreak(h, completions) =
                Min(RunEndingAt(DaysDone(h, completions), todayStr - 1), HorizonDays - 1)

(* C2: A gap terminates.  The first day from yesterday back without a      *)
(* completion ends the walk: the completions older than that day do not    *)
(* contribute to the streak.                                               *)
C2_GapTerminates ==
    \A h \in HabitIds(habits) :
        getStreak(h, completions) =
            getStreak(h, NewerThan(completions, h, todayStr - FirstGap(h, completions)))

(* C3: Counting with today completed.  A habit completed today has as its  *)
(* streak the length of the unbroken run of completed days ending today,   *)
(* within the horizon.                                                     *)
C3_CountsRunEndingToday ==
    \A h \in HabitIds(habits) :
        IsDone(completions, h, todayStr) =>
            getStreak(h, completions) =
                Min(RunEndingAt(DaysDone(h, completions), todayStr), HorizonDays)

----------------------------------------------------------------------------
\* No two elements of a collection are the same (habitId, date) pair
NoDuplicates(cs) == \A i, j \in 1..Len(cs) : i # j => cs[i] # cs[j]

\* What load would put in memory from a record
LoadedHabitsOf(r) == IF r.present THEN ParseHabits(r) ELSE <<>>

LoadedCompletionsOf(r) == IF r.present THEN ParseCompletions(r) ELSE <<>>

(* C4: At most one Completion per (habitId, date), in memory and in the    *)
(* durable record, in every state reached from the empty store.            *)
C4_AtMostOnePerDay ==
    /\ NoDuplicates(completions)
    /\ NoDuplicates(LoadedCompletionsOf(diskC))

\* A habit completed on two days, in memory and in the record, nothing in flight
C4_Witness ==
    /\ \E h \in HabitIds(habits) : Cardinality(DaysDone(h, completions)) >= 2
    /\ diskC = StringifyCompletions(completions)
    /\ Quiet

\* The number of elements of a collection that are the pair (habitId, date)
Count(cs, habitId, date) ==
    Cardinality({ i \in 1..Len(cs) : cs[i] = Completion(habitId, date) })

\* The elements of a collection other than the pair (habitId, date), in order
Others(cs, habitId, date) ==
    SelectSeq(cs, LAMBDA c : ~(c.habitId = habitId /\ c.date = date))

(* C5: toggleComplete flips the membership of (habitId, today) only: it    *)
(* removes the pair if present and adds exactly one otherwise; every other *)
(* completion stays as it was, and so do the habits and their record.      *)
C5_ToggleFlipsOnlyToday ==
    [][\A id \in HabitIds(habits) :
          toggleComplete(id) =>
              /\ Count(completions', id, todayStr) =
                     (IF IsDone(completions, id, todayStr) THEN 0 ELSE 1)
              /\ Others(completions', id, todayStr) = Others(completions, id, todayStr)
              /\ habits' = habits
              /\ diskH' = diskH]_vars

\* A toggle has removed today's completion of a habit that keeps an older
\* one, with the write still in flight
C5_Witness ==
    \E i \in 1..Len(queue) :
        /\ queue[i].then = "toggleComplete"
        /\ ~IsDone(completions, queue[i].id, todayStr)
        /\ DaysDone(queue[i].id, completions) # {}
        /\ queue[i].val = StringifyCompletions(completions)

\* A collection after two toggles of a habit on the same day
ToggledTwice(cs, habitId) ==
    ToggleUpdated(ToggleUpdated(cs, habitId, todayStr), habitId, todayStr)

(* C6: Toggling a habit twice on the same day gives a collection with the  *)
(* same set of (habitId, date) pairs, so every streak is as before.        *)
C6_DoubleToggleNoOp ==
    \A h \in HabitIds(habits) :
        /\ Range(ToggledTwice(completions, h)) = Range(completions)
        /\ NoDuplicates(completions) => NoDuplicates(ToggledTwice(completions, h))
        /\ \A g \in HabitIds(habits) :
              getStreak(g, ToggledTwice(completions, h)) = getStreak(g, completions)

\* Two toggles move today's completion to the end of the collection: the
\* array differs, the pairs and the streak of 2 or more do not
C6_Witness ==
    \E h \in HabitIds(habits) :
        /\ IsDone(completions, h, todayStr)
        /\ ToggledTwice(completions, h) # completions
        /\ getStreak(h, completions) >= 2

(* C7: Cascading delete.  When a confirmed delete of a habit ends, with no *)
(* other command in between, the habit is gone, none of its completions    *)
(* remains, and all other habits and completions are as they were before   *)
(* the delete, in memory and in both records.                              *)
C7_CascadingDelete ==
    [][/\ ConfirmDelete => (alert.snapH = habits /\ alert.snapC = completions)
       /\ DeleteCascadeSaved =>
              LET id == Head(queue).id
                  wasH == Head(queue).snapH
                  wasC == Head(queue).snapC
              IN  /\ id \notin HabitIds(habits')
                  /\ \A c \in Range(completions') : c.habitId # id
                  /\ habits' = SelectSeq(wasH, LAMBDA h : h.id # id)
                  /\ completions' = SelectSeq(wasC, LAMBDA c : c.habitId # id)
                  /\ diskH'.present /\ ParseHabits(diskH') = habits'
                  /\ diskC'.present /\ ParseCompletions(diskC') = completions']_vars

\* The cascade of a habit that had completions is about to be written, and
\* another habit and its completions remain
C7_Witness ==
    /\ Answering("setC", "deleteCascade")
    /\ DaysDone(Head(queue).id, Head(queue).snapC) # {}
    /\ habits # <<>>
    /\ completions # <<>>

(* C8: Delete is persisted atomically.  In no durable state is a deleted   *)
(* habit gone from the habits record while its completions are still in    *)
(* the completions record.                                                 *)
C8_DeleteAtomicOnDisk ==
    \A i \in 1..Len(queue) :
        (/\ queue[i].then = "deleteCascade"
         /\ queue[i].id \notin HabitIds(LoadedHabitsOf(diskH)))
        => \A c \in Range(LoadedCompletionsOf(diskC)) : c.habitId # queue[i].id

(* C9: Memory and durable state move together.  Whenever no command is in  *)
(* progress and every write issued has completed, each record equals the   *)
(* collection in memory.                                                   *)
C9_MemoryMatchesDisk ==
    (Quiet /\ rejections = 0) =>
        /\ habits = LoadedHabitsOf(diskH)
        /\ completions = LoadedCompletionsOf(diskC)

(* C10: On a failed write the memory is not updated as if it had           *)
(* succeeded: when the only write in flight fails, the collection in       *)
(* memory still equals the one last written.                               *)
C10_FailedWriteLeavesMemory ==
    [][(WriteFails /\ Len(queue) = 1) =>
          IF Head(queue).op = "setH"
          THEN habits' = LoadedHabitsOf(diskH')
          ELSE completions' = LoadedCompletionsOf(diskC')]_vars

----------------------------------------------------------------------------
(* C11: A mutating command completes its own write before the new state    *)
(* is visible in memory: whenever a command changes a collection in        *)
(* memory, the record already holds the new collection.                    *)
C11_WriteBeforeVisible ==
    [][~(Restart \/ LoadCompletionsRead) =>
          /\ habits' # habits => diskH' = StringifyHabits(habits')
          /\ completions' # completions => diskC' = StringifyCompletions(completions')]_vars

\* The write requests in flight for one record
WritesInFlight(op) == { i \in 1..Len(queue) : queue[i].op = op }

(* C12: Single writer.  No command starts while an earlier one awaits its  *)
(* write: at no time are two writes to the same record in flight.          *)
C12_SingleWriter ==
    /\ Cardinality(WritesInFlight("setH")) <= 1
    /\ Cardinality(WritesInFlight("setC")) <= 1

\* No two habits of a collection have the same id
UniqueIds(hs) == \A i, j \in 1..Len(hs) : i # j => hs[i].id # hs[j].id

(* C13: Habit ids are unique in the collection, in memory and in the       *)
(* record, after any sequence of creates, reloads included.                *)
C13_UniqueHabitIds ==
    /\ UniqueIds(habits)
    /\ UniqueIds(LoadedHabitsOf(diskH))

\* A text of whitespace only, the empty text included
OnlySpaces(s) == \A i \in 1..Len(s) : s[i] = Space

(* C14: Empty names are rejected silently.  addHabit with an input that is *)
(* empty or whitespace only creates no habit, issues no write, raises no   *)
(* error and leaves the habits, the completions and the input as they were.*)
C14_EmptyNameRejected ==
    [][(addHabit /\ OnlySpaces(input)) =>
          UNCHANGED <<habits, completions, input, alert, queue, diskH, diskC, rejections>>]_vars

\* The add button can be pressed with a whitespace-only input, a habit
\* being listed and stored
C14_Witness ==
    /\ CanAct
    /\ input = <<Space>>
    /\ habits # <<>>
    /\ diskH = StringifyHabits(habits)

(* C15: Restart round trip.  When the process stops with no write in       *)
(* flight, what load reads from the two records is the pair of collections *)
(* that was in memory at the stop.                                         *)
C15_RestartRoundTrip ==
    [][(Quiet /\ Restart) =>
          /\ LoadedHabitsOf(diskH) = habits
          /\ LoadedCompletionsOf(diskC) = completions]_vars

(* C16: First run.  The load takes each missing record, independently of   *)
(* the other, as an empty collection and not as an error: after the load   *)
(* each collection is what its own record holds, or empty without one.     *)
C16_MissingRecordIsEmpty ==
    [][LoadCompletionsRead =>
          /\ habits' = LoadedHabitsOf(diskH)
          /\ completions' = LoadedCompletionsOf(diskC)
          /\ rejections' = rejections
          /\ UNCHANGED <<diskH, diskC>>]_vars

\* The load is about to end with the completions record present and the
\* habits record missing
C16_Witness ==
    /\ Answering("getC", "load")
    /\ ~Head(queue).val.present
    /\ ~diskH.present
    /\ diskC.present

\* The streaks of the habits of a collection
Streaks(hs, cs) == { getStreak(hs[i].id, cs) : i \in 1..Len(hs) }

(* C17: Best streak is the maximum of getStreak over the habits of the     *)
(* collection, and 0 when there are no habits.                             *)
C17_BestStreakIsMax ==
    /\ longestStreak \in Streaks(habits, completions) \cup {0}
    /\ \A s \in Streaks(habits, completions) \cup {0} : longestStreak >= s
    /\ \A k \in 0..Len(habits) :
          LET hs == SubSeq(habits, 1, k)
              best == ReduceMax(hs, completions, 0)
          IN  /\ best \in Streaks(hs, completions) \cup {0}
              /\ \A s \in Streaks(hs, completions) \cup {0} : best >= s

\* The first habit has the longer streak and the second one a streak too
C17_Witness ==
    /\ Len(habits) = 2
    /\ getStreak(habits[1].id, completions) > getStreak(habits[2].id, completions)
    /\ getStreak(habits[2].id, completions) > 0
    /\ longestStreak = getStreak(habits[1].id, completions)

\* An id that no habit has
NoSuchHabit == "none"

(* C18: No completions, zero streak.  getStreak of a habit id that has no  *)
(* completion in the collection is 0, whatever the completions of other    *)
(* habits; no streak is negative.                                          *)
C18_NoCompletionsZeroStreak ==
    \A h \in HabitIds(habits) \cup {NoSuchHabit} :
        /\ getStreak(h, completions) >= 0
        /\ DaysDone(h, completions) = {} => getStreak(h, completions) = 0

\* A habit without completions beside a habit with a streak of two days
C18_Witness ==
    \E h, g \in HabitIds(habits) :
        /\ DaysDone(h, completions) = {}
        /\ getStreak(g, completions) >= 2

\* The step on which the day of todayStr changes to the next one, with the
\* collection as it was
NextDayBegins ==
    /\ ISODate(now') = ISODate(now) + 1
    /\ completions' = completions

(* C19: The streak does not reset because the user has not yet checked in. *)
(* When the next day begins, the streak of a habit completed on the day    *)
(* that ends is what it was, and not 0; the streak of a habit not          *)
(* completed on the day that ends becomes 0.                               *)
C19_NoResetBeforeCheckIn ==
    [][NextDayBegins =>
          \A h \in HabitIds(habits) :
              IF IsDone(completions, h, ISODate(now))
              THEN /\ getStreak(h, completions)' = getStreak(h, completions)
                   /\ getStreak(h, completions)' >= 1
              ELSE getStreak(h, completions)' = 0]_vars

(* C20: Historical completions are not editable.  Across any sequence of   *)
(* operations a completion of a day earlier than the current one stays in  *)
(* the collection until its habit is deleted: only the cascade of a delete *)
(* of that habit removes it while the process runs.                        *)
C20_HistoryNotEditable ==
    [][\A c \in Range(completions) :
          c.date < todayStr =>
              \/ c \in Range(completions')
              \/ DeleteHabitSaved /\ Head(queue).id = c.habitId
              \/ Restart]_vars

----------------------------------------------------------------------------
\* The calendar day of an instant on the local wall clock of the process
LocalDay(t) == LocalTime(t) \div TicksPerDay

(* C21: Every date used is the calendar day in the local time zone of the  *)
(* process: the day a toggle records and the day getStreak starts from,    *)
(* todayStr(), changes at local midnight and not at UTC midnight.          *)
C21_DatesAreLocalDays == todayStr = LocalDay(now)

(* C22: Bounded horizon.  getStreak examines at most the 365 day offsets   *)
(* 0..364: its result never exceeds 365, never exceeds 364 when today has  *)
(* no completion, and is 0 for a habit whose only completions lie more     *)
(* than 365 days in the past.                                              *)
C22_BoundedHorizon ==
    \A h \in HabitIds(habits) :
        LET streak == getStreak(h, completions)
        IN  /\ streak <= HorizonDays
            /\ ~IsDone(completions, h, todayStr) => streak <= HorizonDays - 1
            /\ (\A d \in DaysDone(h, completions) : d < todayStr - HorizonDays)
                   => streak = 0

\* A run of more than 365 days ending today is counted as 365, beside a
\* habit completed only on a day more than 365 days in the past
C22_Witness ==
    \E h, g \in HabitIds(habits) :
        /\ RunEndingAt(DaysDone(h, completions), todayStr) > HorizonDays
        /\ getStreak(h, completions) = HorizonDays
        /\ DaysDone(g, completions) # {}
        /\ \A d \in DaysDone(g, completions) : d < todayStr - HorizonDays

\* The completions whose habit is in the habit collection
Live(hs, cs) == SelectSeq(cs, LAMBDA c : c.habitId \in HabitIds(hs))

(* C23: Orphaned completions do not affect statistics.  Best Streak and    *)
(* Done Today are what they would be without the completions whose habit   *)
(* is not in the collection; Done Today counts exactly the habits of the   *)
(* collection completed today and never exceeds the number of habits.      *)
C23_OrphansDoNotCount ==
    /\ longestStreak = ReduceMax(habits, Live(habits, completions), 0)
    /\ completedToday = DoneToday(habits, Live(habits, completions), todayStr)
    /\ completedToday =
           Cardinality({ i \in 1..Len(habits) : IsDone(completions, habits[i].id, todayStr) })
    /\ completedToday <= Len(habits)

\* A completion of today whose habit is gone, beside a habit completed today
C23_Witness ==
    /\ \E c \in Range(completions) : c.habitId \notin HabitIds(habits) /\ c.date = todayStr
    /\ completedToday >= 1
    /\ longestStreak >= 1

\* The completions of one habit, in their order
OnlyOf(cs, habitId) == SelectSeq(cs, LAMBDA c : c.habitId = habitId)

\* A collection in the opposite order
Reversed(cs) == SubSeq(Reverse(cs), 1, Len(cs))

(* C24: getStreak is deterministic in the set of dates of the habit: for a *)
(* fixed instant, collections with the same dates for H give the same      *)
(* result whatever the order of the elements, duplicate entries and the    *)
(* completions of other habits; the collection given is left as it was.    *)
C24_StreakDependsOnDatesOnly ==
    \A h \in HabitIds(habits) :
        LET streak == getStreak(h, completions)
        IN  /\ getStreak(h, Reversed(completions)) = streak
            /\ getStreak(h, completions \o completions) = streak
            /\ getStreak(h, OnlyOf(completions, h)) = streak
            /\ getStreak(h, OnlyOf(completions, h) \o Reversed(completions)) = streak

\* A collection that is not its own reverse, in which a habit with a streak
\* of two days is followed by entries of the other habit
C24_Witness ==
    \E h \in HabitIds(habits) :
        /\ getStreak(h, completions) >= 2
        /\ Reversed(completions) # completions
        /\ completions[Len(completions)].habitId # h

\* A step that issues the first write of a delete
IssuesDeleteWrite ==
    /\ Len(queue') = Len(queue) + 1
    /\ queue'[Len(queue')].then = "deleteHabit"

(* C25: Deletion needs confirmation.  Requesting the deletion of a habit   *)
(* and cancelling change nothing in the habits, the completions and the    *)
(* two records, and issue no write; the write of a delete is issued only   *)
(* by the Delete option of the open dialog, for the habit it names.        *)
C25_DeleteNeedsConfirmation ==
    [][/\ ((\E id \in HabitIds(habits) : deleteHabit(id)) \/ CancelDelete) =>
              UNCHANGED <<habits, completions, input, queue, diskH, diskC, rejections>>
       /\ IssuesDeleteWrite =>
              /\ alert.open
              /\ ~alert'.open
              /\ queue'[Len(queue')].id = alert.id]_vars

\* The dialog is open for a habit that has a completion, with nothing in
\* flight and both records as in memory
C25_Witness ==
    /\ alert.open
    /\ DaysDone(alert.id, completions) # {}
    /\ Quiet
    /\ diskH = StringifyHabits(habits)
    /\ diskC = StringifyCompletions(completions)

----------------------------------------------------------------------------
\* The habit that addHabit makes of an id, a name and a time of creation
AsCreated(h) ==
    LET video == suggestVideo(h.name)
    IN  MediaHabit(h.id, h.name, h.createdAt,
                   Property(video, "videoId"), Property(video, "videoTitle"),
                   suggestPlaylist(h.name))

\* The text of one habit in a record
TextOf(h) == StringifyHabits(<<h>>).text[1]

(* C26: Habits are immutable after creation.  Every habit of the           *)
(* collection after a step is, property for property, a habit of the       *)
(* collection before it, or the one addHabit creates with the id, name,    *)
(* time and suggestion assigned at creation, or one whose text is in the   *)
(* record just read; every habit text in the record after a step was in    *)
(* the record or is the text of a habit of the collection.  So across      *)
(* creates, toggles, deletes of other habits, saves and reloads a habit    *)
(* keeps what it was created with.                                         *)
C26_HabitsImmutable ==
    [][/\ \A i \in 1..Len(habits') :
              \/ habits'[i] \in Range(habits)
              \/ /\ addHabitWithMedia
                 /\ i = Len(habits')
                 /\ habits'[i] = AsCreated(habits'[i])
                 /\ habits'[i].id = ToString(now)
                 /\ habits'[i].createdAt = now
                 /\ habits'[i].name = Trim(input)
              \/ /\ LoadCompletionsRead
                 /\ TextOf(habits'[i]) \in Range(Head(queue).val.text)
       /\ \A k \in 1..Len(diskH'.text) :
              \/ diskH'.text[k] \in Range(diskH.text)
              \/ \E j \in 1..Len(habits) : diskH'.text[k] = TextOf(habits[j])]_vars

\* After a delete and with a toggle made, the one habit left has the
\* suggestion of a table row, in memory and in the record
C26_Witness ==
    /\ Len(habits) = 1
    /\ habits[1].name = MorningRun
    /\ habits[1].playlistCategory = "Running"
    /\ habits[1].id # "0"
    /\ completions # <<>>
    /\ Quiet
    /\ diskH = StringifyHabits(habits)

\* A keyword occurs in a text
Occurs(kw, s) ==
    \E i \in 1..Len(s) : \A j \in 1..Len(kw) : i + j - 1 <= Len(s) /\ s[i + j - 1] = kw[j]

\* The rows of a table that have a keyword occurring in a lower-cased name
MatchingRows(map, lower) ==
    { i \in 1..Len(map) : \E j \in 1..Len(map[i].keywords) : Occurs(map[i].keywords[j], lower) }

\* The earliest of some rows of a table, or the fallback entry
EarliestRow(map, fallback, rows) ==
    IF rows = {} THEN fallback ELSE map[CHOOSE i \in rows : \A k \in rows : i <= k]

\* The lookups return what the earliest matching rows hold
FirstMatchWins(name) ==
    LET lower == ToLowerCase(name)
        video == EarliestRow(VIDEO_MAP, VIDEO_FALLBACK, MatchingRows(VIDEO_MAP, lower))
        playlist == EarliestRow(PLAYLIST_MAP, PLAYLIST_FALLBACK, MatchingRows(PLAYLIST_MAP, lower))
    IN  /\ suggestVideo(name) = [videoId |-> video.videoId, title |-> video.title]
        /\ suggestPlaylist(name) = playlist

(* C27: Suggestion lookup is first match wins with a mandatory fallback:   *)
(* suggestVideo and suggestPlaylist return the entry of the earliest row   *)
(* with a keyword occurring in the lower-cased name, and the fallback      *)
(* entry when no row matches.                                              *)
C27_FirstMatchWins == \A name \in {input, Trim(input)} : FirstMatchWins(name)

\* The name typed matches two rows of each table, and a habit listed has
\* the fallback video
C27_Witness ==
    /\ Cardinality(MatchingRows(VIDEO_MAP, ToLowerCase(input))) >= 2
    /\ Cardinality(MatchingRows(PLAYLIST_MAP, ToLowerCase(input))) >= 2
    /\ \E i \in 1..Len(habits) : habits[i].videoId = VIDEO_FALLBACK.videoId

(* C28: A habit created with the name "Morning Run" has the suggestion of  *)
(* the row of keyword "run": the running video, id and title, and the      *)
(* Running playlist, not those of the row of "morning".                    *)
C28_MorningRunIsRunning ==
    \A h \in Range(habits) :
        h.name = MorningRun =>
            /\ Property(h, "videoId") = "iSFpgQUGCVo"
            /\ Property(h, "videoTitle") = "How to Start Running (and Actually Enjoy It)"
            /\ Property(h, "playlistTitle") = "Running Motivation Mix"
            /\ Property(h, "playlistCategory") = "Running"

\* The toggles of other habits handled while the delete at the head of the
\* queue awaits its habits write
TogglesDuringDelete ==
    { k \in 2..Len(queue) : queue[k].then = "toggleComplete" /\ queue[k].id # Head(queue).id }

(* C29: A toggle is not lost to a concurrent delete.  When the habits      *)
(* write of a confirmed delete of habit A returns while a toggle of        *)
(* another habit B, handled in between, is in flight, the cascade leaves   *)
(* B's completions as the toggle made them, in the collection in memory    *)
(* and in the text it writes to the record.                                *)
C29_ToggleSurvivesDelete ==
    [][DeleteHabitSaved =>
          \A k \in TogglesDuringDelete :
              LET toggled == OnlyOf(ParseCompletions(queue[k].val), queue[k].id)
              IN  /\ OnlyOf(completions', queue[k].id) = toggled
                  /\ OnlyOf(ParseCompletions(queue'[Len(queue')].val), queue[k].id) = toggled]_vars

\* The initial load has not finished
Loading == \E k \in 1..Len(queue) : queue[k].then = "load"

(* C30: A create issued before the initial load has finished loses         *)
(* nothing.  When the load ends with habits created meanwhile in memory,   *)
(* the collection keeps them and holds the habits read from the record;    *)
(* when the write of such a create lands, the record keeps the habits it   *)
(* held; and once nothing is in flight memory equals the record.  No       *)
(* write has been rejected since the process started.                      *)
C30_CreateDuringLoadLosesNothing ==
    [][/\ (LoadCompletionsRead /\ habits # <<>> /\ rejections = 0) =>
              /\ Range(habits) \subseteq Range(habits')
              /\ Range(LoadedHabitsOf(Head(queue).val)) \subseteq Range(habits')
              /\ queue' = <<>> => habits' = LoadedHabitsOf(diskH')
       /\ (AddHabitSaved /\ Loading /\ rejections = 0) =>
              /\ Range(LoadedHabitsOf(diskH)) \subseteq Range(LoadedHabitsOf(diskH'))
              /\ queue' = <<>> => habits' = LoadedHabitsOf(diskH')]_vars

\* No command is in progress: no dialog is open and no request is in flight
Idle == ~alert.open /\ queue = <<>>

\* The completions of a collection whose habit is not in a habit collection
Orphans(hs, cs) == SelectSeq(cs, LAMBDA c : c.habitId \notin HabitIds(hs))

(* C31: No orphaned completions arise through the UI.  From an empty       *)
(* store, with every write successful, whenever no command is in progress  *)
(* every completion in memory and in the record has the id of a habit of   *)
(* the habit collection.                                                   *)
C31_NoOrphans ==
    Idle => /\ Orphans(habits, completions) = <<>>
            /\ Orphans(habits, LoadedCompletionsOf(diskC)) = <<>>

\* A confirmed delete ends: its last write lands, or one of its writes is
\* rejected
DeleteEnds ==
    \/ DeleteCascadeSaved
    \/ WriteFails /\ Head(queue).then \in {"deleteHabit", "deleteCascade"}

(* C32: A delete is all-or-nothing in memory even when a write fails.      *)
(* When a confirmed delete of habit H ends, by success or by a rejected    *)
(* write, it is not the case that H is gone from the habits in memory      *)
(* while completions of H remain in the completions in memory.             *)
C32_DeleteAllOrNothing ==
    [][DeleteEnds =>
          ~ /\ Head(queue).id \notin HabitIds(habits')
            /\ OnlyOf(completions', Head(queue).id) # <<>>]_vars

\* A collection with the completion of a habit on a day, and without it
WithDay(cs, habitId, t) ==
    IF IsDone(cs, habitId, t) THEN cs ELSE Append(cs, Completion(habitId, t))

WithoutDay(cs, habitId, t) ==
    SelectSeq(cs, LAMBDA c : ~(c.habitId = habitId /\ c.date = t))

\* The step is a toggle that checks the habit in for today
TogglesOn(h) == toggleComplete(h) /\ ~IsDone(completions, h, todayStr)

(* C33: Checking in today changes the streak by exactly one.  For every    *)
(* collection and habit, the streak with the completion of today is the    *)
(* streak without it plus 1, at the horizon cap too; right after a toggle  *)
(* that checks a habit in, the habit is shown done and its streak is at    *)
(* least 1.                                                                *)
C33_CheckInAddsOne ==
    [][\A h \in HabitIds(habits) :
          /\ getStreak(h, WithDay(completions, h, todayStr))
                 = getStreak(h, WithoutDay(completions, h, todayStr)) + 1
          /\ TogglesOn(h) =>
                 /\ IsDone(completions, h, todayStr)'
                 /\ getStreak(h, completions)' >= 1]_vars

\* The dates of a habit completed on every day up to today, newest first
EveryDay == [j \in 1..(2 * todayStr + 4) |-> todayStr + 1 - j]

\* The day string that iteration i of the walk examines when no earlier
\* iteration has left the loop
DayExamined(i) == ISODate(StreakLoop(EveryDay, Walk(now, 0, FALSE), 0, i).cur)

(* C34: The walk steps one calendar day at a time.  The day examined at    *)
(* iteration i is the calendar day i days before the day of iteration 0,   *)
(* which is todayStr(); no day is examined twice and none is skipped, at   *)
(* any time of day and in any zone, also across a change of offset.        *)
C34_WalkStepsOneDay ==
    \A i \in 0..(todayStr + 1) : DayExamined(i) = todayStr - i

(* C35: lastNDays(n) returns n day strings that are distinct consecutive   *)
(* calendar days in ascending order, the last one todayStr(); the dot row  *)
(* of a habit has a dot for each of the 7 days up to today, done exactly   *)
(* when the habit has a completion on that day.                            *)
C35_LastDaysAreConsecutive ==
    /\ Len(lastNDays(WeekDays)) = WeekDays
    /\ \A k \in 1..WeekDays :
          /\ lastNDays(WeekDays)[k] = todayStr - (WeekDays - k)
          /\ \A h \in HabitIds(habits) :
                /\ WeekDots(h, completions)[k].date = todayStr - (WeekDays - k)
                /\ WeekDots(h, completions)[k].done
                       <=> IsDone(completions, h, todayStr - (WeekDays - k))

\* A text without the spaces before its first and after its last character
\* that is not a space
Stripped(s) ==
    LET inked == { i \in 1..Len(s) : s[i] # Space }
    IN  IF inked = {} THEN <<>>
        ELSE SubSeq(s, CHOOSE i \in inked : \A j \in inked : i <= j,
                       CHOOSE i \in inked : \A j \in inked : i >= j)

(* C36: Names are stored trimmed and non-empty.  The habit that addHabit   *)
(* adds has the input without its leading and trailing whitespace as its   *)
(* name and the suggestion of the lookup for that trimmed name, and no     *)
(* habit of the collection has an empty name.                              *)
C36_NamesTrimmed ==
    [][/\ (addHabitWithMedia /\ habits' # habits) =>
              LET habit == habits'[Len(habits')]
              IN  /\ habit.name = Stripped(input)
                  /\ Property(habit, "videoId") = suggestVideo(Stripped(input)).videoId
                  /\ habit.playlistId = suggestPlaylist(Stripped(input)).playlistId
                  /\ habit.playlistTitle = suggestPlaylist(Stripped(input)).title
                  /\ habit.playlistCategory = suggestPlaylist(Stripped(input)).category
       /\ \A i \in 1..Len(habits') : habits'[i].name # <<>>]_vars

\* A habit has just been added from an input with a space on either side:
\* its name has neither, and its write is in flight
C36_Witness ==
    /\ input = <<" ", "R", "e", "a", "d", " ">>
    /\ habits # <<>>
    /\ habits[Len(habits)].name = <<"R", "e", "a", "d">>
    /\ queue # <<>>
    /\ queue[Len(queue)].then = "addHabit"

====
